---- MODULE Spec2Model ----
(***************************************************************************)
(* Model of the tool-dispatch layer of mcp-google-map: the call-tool       *)
(* handler, PlacesSearcher (the envelope layer) and GoogleMapsTools (the   *)
(* gateway over the Google Maps client).                                   *)
(*                                                                         *)
(* JavaScript values.  An optional value is a sequence of length 0 or 1:   *)
(* Undefined is <<>>, Some(v) is <<v>>.  A string the code parses          *)
(* (center.value) is a sequence of one-character strings; every other      *)
(* string is an atomic TLA+ string.  An error message is a sequence of     *)
(* string pieces, the template literal's parts in order.  A function that  *)
(* may throw returns Ok(v) or Throw(msg).                                  *)
(***************************************************************************)
EXTENDS Integers, Sequences, FiniteSets, TLC

VARIABLES pc, req, calls, loc, env, coordIn, coordOut

vars == <<pc, req, calls, loc, env, coordIn, coordOut>>

Undefined == <<>>
Some(v) == <<v>>
IsDefined(o) == o # Undefined
Get(o) == o[1]

Ok(v) == [ok |-> TRUE, val |-> v, msg |-> <<>>]
Throw(m) == [ok |-> FALSE, val |-> Undefined, msg |-> m]

(***************************************************************************)
(* Bounds of the model.                                                    *)
(***************************************************************************)
MaxStrLen == 4
MaxPlaces == 2
MaxAddrs == 2
MaxLocations == 2
NumFlights == 2

(***************************************************************************)
(* Strings: String.prototype.split(","), String.prototype.trim and the     *)
(* global parseFloat, over the characters of Chars.                        *)
(***************************************************************************)
Chars == {"1", "2", "0", ".", "-", ",", " ", "x"}
Digits == {"0", "1", "2"}

DigitVal(c) == IF c = "0" THEN 0 ELSE IF c = "1" THEN 1 ELSE 2

RECURSIVE StringsOfLen(_)
StringsOfLen(n) ==
  IF n = 0 THEN {<<>>}
  ELSE {Append(s, c) : s \in StringsOfLen(n - 1), c \in Chars}

Drop(s, n) == SubSeq(s, n + 1, Len(s))

\* Index of the first "," of s, or 0.
RECURSIVE IndexOfComma(_, _)
IndexOfComma(s, i) ==
  IF i > Len(s) THEN 0
  ELSE IF s[i] = "," THEN i
  ELSE IndexOfComma(s, i + 1)

\* s.split(","): the pieces between the commas, empty pieces included.
RECURSIVE Split(_)
Split(s) ==
  LET k == IndexOfComma(s, 1)
  IN IF k = 0 THEN <<s>>
     ELSE <<SubSeq(s, 1, k - 1)>> \o Split(Drop(s, k))

RECURSIVE TrimStart(_)
TrimStart(s) ==
  IF s # <<>> /\ s[1] = " " THEN TrimStart(Drop(s, 1)) ELSE s

RECURSIVE TrimEnd(_)
TrimEnd(s) ==
  IF s # <<>> /\ s[Len(s)] = " " THEN TrimEnd(SubSeq(s, 1, Len(s) - 1)) ELSE s

Trim(s) == TrimEnd(TrimStart(s))

\* Length of the longest prefix of s made of decimal digits.
RECURSIVE DigitRun(_)
DigitRun(s) ==
  IF s # <<>> /\ s[1] \in Digits THEN 1 + DigitRun(Drop(s, 1)) ELSE 0

RECURSIVE DigitsValue(_)
DigitsValue(s) ==
  IF s = <<>> THEN 0
  ELSE 10 * DigitsValue(SubSeq(s, 1, Len(s) - 1)) + DigitVal(s[Len(s)])

InfinityText == <<"I", "n", "f", "i", "n", "i", "t", "y">>

StartsWith(s, p) == Len(s) >= Len(p) /\ SubSeq(s, 1, Len(p)) = p

NaN == [kind |-> "NaN", neg |-> FALSE, mant |-> 0, scale |-> 0]
Infinite(neg) == [kind |-> "Infinity", neg |-> neg, mant |-> 0, scale |-> 0]

\* The number mant / 10^scale, in lowest decimal terms (1.0 is 1).
RECURSIVE Number(_, _, _)
Number(neg, mant, scale) ==
  IF scale > 0 /\ mant % 10 = 0 THEN Number(neg, mant \div 10, scale - 1)
  ELSE [kind |-> "num", neg |-> neg /\ mant # 0, mant |-> mant, scale |-> scale]

(***************************************************************************)
(* parseFloat(s): skip leading white space, then read the longest prefix   *)
(* that is a StrDecimalLiteral (sign, then Infinity or digits with an      *)
(* optional fraction) and ignore whatever follows it; NaN when there is no *)
(* such prefix.  ParseFloatScan gives the value and the number of          *)
(* characters of the trimmed string that were read.  (Chars has no "e", so *)
(* the exponent part of the grammar never applies.)                        *)
(***************************************************************************)
ParseFloatScan(s) ==
  LET t == TrimStart(s)
      signed == t # <<>> /\ t[1] \in {"-", "+"}
      neg == signed /\ t[1] = "-"
      body == IF signed THEN Drop(t, 1) ELSE t
      sgn == IF signed THEN 1 ELSE 0
      ni == DigitRun(body)
      afterInt == Drop(body, ni)
      hasDot == afterInt # <<>> /\ afterInt[1] = "."
      nf == IF hasDot THEN DigitRun(Drop(afterInt, 1)) ELSE 0
      intPart == SubSeq(body, 1, ni)
      fracPart == SubSeq(body, ni + 2, ni + 1 + nf)
  IN IF StartsWith(body, InfinityText)
       THEN [value |-> Infinite(neg), read |-> sgn + Len(InfinityText)]
     ELSE IF ni + nf = 0
       THEN [value |-> NaN, read |-> 0]
     ELSE [value |-> Number(neg, DigitsValue(intPart \o fracPart), nf),
           read |-> sgn + ni + (IF hasDot THEN 1 + nf ELSE 0)]

parseFloat(s) == ParseFloatScan(s).value

isNaN(v) == v.kind = "NaN"

InvalidCoordinateFormat == <<"Invalid coordinate format, expected 'latitude,longitude'">>

\* TypeError raised by reading a property of undefined.
TypeErrorMsg(prop) == <<"Cannot read properties of undefined (reading '", prop, "')">>

(***************************************************************************)
(* GoogleMapsTools.parseCoordinates                                        *)
(***************************************************************************)
parseCoordinates(coordString) ==
  IF ~IsDefined(coordString) THEN Throw(TypeErrorMsg("split"))
  ELSE
    LET parts == Split(Get(coordString))
        coords == [i \in 1..Len(parts) |-> parseFloat(Trim(parts[i]))]
    IN IF Len(coords) # 2 \/ isNaN(coords[1]) \/ isNaN(coords[2])
         THEN Throw(InvalidCoordinateFormat)
       ELSE Ok([lat |-> coords[1], lng |-> coords[2]])

(***************************************************************************)
(* Truthiness of optional values, as `x || d` and `if (x)` see them.       *)
(***************************************************************************)
TruthyNumber(o) == IsDefined(o) /\ Get(o) # 0
TruthyString(o) == IsDefined(o) /\ Get(o) # ""

\* try { body } catch (error) { throw new Error(msg) }
Rethrow(body, msg) == IF body.ok THEN body ELSE Throw(msg)

Num(n) == Number(FALSE, n, 0)

(***************************************************************************)
(* Responses of the Google Maps client.  A call either rejects (a          *)
(* transport error, or the client's own rejection of a provider status) or *)
(* resolves with response.data.  A resolved answer has the shape the       *)
(* provider documents (one row per origin, one element per destination,    *)
(* one elevation per location), or lacks its result field altogether.      *)
(***************************************************************************)
Rejected == [kind |-> "rejected"]
Resolved(d) == [kind |-> "resolved", data |-> d]

GeoResult(n) ==
  [geometry |-> [location |-> [lat |-> Num(n), lng |-> Num(n + 1)]],
   formatted_address |-> "addr", place_id |-> n,
   address_components |-> <<"comp">>]

GeocodeResponses ==
  {Rejected,
   Resolved([results |-> Undefined]),
   Resolved([results |-> Some(<<>>)]),
   Resolved([results |-> Some(<<GeoResult(5)>>)]),
   Resolved([results |-> Some(<<GeoResult(5), GeoResult(7)>>)])}

Ratings == {Undefined, Some(0), Some(3), Some(5)}

Place(i, rating, geometry) ==
  [name |-> "place", place_id |-> i, formatted_address |-> Some("addr"),
   geometry |-> geometry, rating |-> rating,
   user_ratings_total |-> Some(9), opening_hours |-> Undefined]

PlaceGeometry(i) == Some([location |-> [lat |-> i, lng |-> i]])

\* The result lists of n places; place i carries place_id i.
PlaceLists(n) ==
  {[i \in 1..n |-> Place(i, f[i], PlaceGeometry(i))] : f \in [1..n -> Ratings]}

NearbyResponses ==
  {Rejected,
   Resolved([results |-> Undefined]),
   Resolved([results |-> Some(<<Place(1, Some(5), Undefined)>>)])}
  \cup {Resolved([results |-> Some(l)]) :
          l \in UNION {PlaceLists(n) : n \in 0..MaxPlaces}}

DefaultRadius == 1000

(***************************************************************************)
(* GoogleMapsTools.searchNearbyPlaces: the request it sends, and what it   *)
(* returns once the client has answered.                                   *)
(***************************************************************************)
searchNearbyPlacesRequest(params) ==
  [op |-> "placesNearby",
   params |-> [location |-> params.location,
               radius |-> IF TruthyNumber(params.radius)
                            THEN Get(params.radius) ELSE DefaultRadius,
               keyword |-> params.keyword,
               opennow |-> params.openNow]]

RatingOrZero(place) == IF TruthyNumber(place.rating) THEN Get(place.rating) ELSE 0

MinRatingGiven(params) == TruthyNumber(params.minRating)

KeepPlace(place, minRating) == RatingOrZero(place) >= minRating

searchNearbyPlaces(params, resp) ==
  Rethrow(
    IF resp.kind = "rejected" THEN Throw(<<"request failed">>)
    ELSE IF MinRatingGiven(params)
      THEN IF ~IsDefined(resp.data.results) THEN Throw(TypeErrorMsg("filter"))
           ELSE Ok(Some(SelectSeq(Get(resp.data.results),
                                  LAMBDA place : KeepPlace(place, Get(params.minRating)))))
    ELSE Ok(resp.data.results),
    <<"An error occurred while searching for nearby places">>)

(***************************************************************************)
(* GoogleMapsTools.geocodeAddress                                          *)
(***************************************************************************)
geocodeAddressRequest(address) ==
  [op |-> "geocode", params |-> [address |-> address]]

\* A geocodeAddress that falls back to a fixed point when the lookup fails.
geocodeAddressOrFallback(resp) ==
  IF resp.kind = "resolved" /\ IsDefined(resp.data.results)
       /\ Len(Get(resp.data.results)) > 0
    THEN LET result == Get(resp.data.results)[1]
         IN Ok([lat |-> result.geometry.location.lat,
                lng |-> result.geometry.location.lng,
                formatted_address |-> result.formatted_address,
                place_id |-> result.place_id])
    ELSE Ok([lat |-> Num(0), lng |-> Num(0), formatted_address |-> "", place_id |-> 0])

geocodeAddress(resp) ==
  Rethrow(
    IF resp.kind = "rejected" THEN Throw(<<"request failed">>)
    ELSE IF ~IsDefined(resp.data.results) THEN Throw(TypeErrorMsg("length"))
    ELSE IF Len(Get(resp.data.results)) = 0 THEN Throw(<<"Address not found">>)
    ELSE LET result == Get(resp.data.results)[1]
         IN Ok([lat |-> result.geometry.location.lat,
                lng |-> result.geometry.location.lng,
                formatted_address |-> result.formatted_address,
                place_id |-> result.place_id]),
    <<"An error occurred while converting address to coordinates">>)

(***************************************************************************)
(* GoogleMapsTools.geocode                                                 *)
(***************************************************************************)
geocode(resp) ==
  Rethrow(
    LET result == geocodeAddress(resp)
    IN IF ~result.ok THEN result
       ELSE Ok([location |-> [lat |-> result.val.lat, lng |-> result.val.lng],
                formatted_address |-> result.val.formatted_address,
                place_id |-> result.val.place_id]),
    <<"An error occurred while converting address to coordinates">>)

(***************************************************************************)
(* GoogleMapsTools.reverseGeocode                                          *)
(***************************************************************************)
reverseGeocodeRequest(latitude, longitude) ==
  [op |-> "reverseGeocode",
   params |-> [latlng |-> [lat |-> latitude, lng |-> longitude]]]

reverseGeocode(resp) ==
  Rethrow(
    IF resp.kind = "rejected" THEN Throw(<<"request failed">>)
    ELSE IF ~IsDefined(resp.data.results) THEN Throw(TypeErrorMsg("length"))
    ELSE IF Len(Get(resp.data.results)) = 0
      THEN Throw(<<"Address not found for given coordinates">>)
    ELSE LET result == Get(resp.data.results)[1]
         IN Ok([formatted_address |-> result.formatted_address,
                place_id |-> result.place_id,
                address_components |-> result.address_components]),
    <<"An error occurred while converting coordinates to address">>)

(***************************************************************************)
(* GoogleMapsTools.getPlaceDetails                                         *)
(***************************************************************************)
PlaceDetailsResult(geometry, rating, opening_hours, reviews) ==
  [name |-> "place", formatted_address |-> "addr", geometry |-> geometry,
   rating |-> rating, user_ratings_total |-> Some(9),
   opening_hours |-> opening_hours, formatted_phone_number |-> Undefined,
   website |-> Some("site"), price_level |-> Undefined, reviews |-> reviews]

Review ==
  [rating |-> 5, text |-> "good", time |-> 1, author_name |-> "a", language |-> "en"]

PlaceDetailsResponses ==
  {Rejected,
   Resolved([result |-> Undefined]),
   Resolved([result |-> Some(PlaceDetailsResult(Undefined, Some(3), Undefined, Undefined))]),
   Resolved([result |-> Some(PlaceDetailsResult(PlaceGeometry(1), Undefined,
                                                Some([open_now |-> Some(TRUE)]),
                                                Some(<<Review>>)))])}

getPlaceDetailsRequest(placeId) ==
  [op |-> "placeDetails", params |-> [place_id |-> placeId]]

getPlaceDetails(resp) ==
  Rethrow(
    IF resp.kind = "rejected" THEN Throw(<<"request failed">>)
    ELSE Ok(resp.data.result),
    <<"An error occurred while fetching place details">>)

(***************************************************************************)
(* GoogleMapsTools.calculateDistanceMatrix                                 *)
(***************************************************************************)
ElementOK(i, j) ==
  [status |-> "OK",
   distance |-> [value |-> 100 * i + j, text |-> "km"],
   duration |-> [value |-> 1000 * i + j, text |-> "mins"]]

ElementNotFound ==
  [status |-> "NOT_FOUND",
   distance |-> [value |-> 0, text |-> ""],
   duration |-> [value |-> 0, text |-> ""]]

\* The row lists for n origins and m destinations: one row per origin, one
\* element per destination, each element OK or not.
RowLists(n, m) ==
  {[i \in 1..n |->
      [elements |-> [j \in 1..m |-> IF ok[i][j] THEN ElementOK(i, j)
                                    ELSE ElementNotFound]]] :
     ok \in [1..n -> [1..m -> BOOLEAN]]}

DistanceMatrixBody(status, rows) ==
  [status |-> status, rows |-> rows,
   origin_addresses |-> <<"from">>, destination_addresses |-> <<"to">>]

\* An absent origins or destinations parameter is no valid request.
DistanceMatrixResponses(origins, destinations) ==
  {Rejected,
   Resolved(DistanceMatrixBody("INVALID_REQUEST", Some(<<>>))),
   Resolved(DistanceMatrixBody("OK", Undefined))}
  \cup
  (IF IsDefined(origins) /\ IsDefined(destinations)
     THEN {Resolved(DistanceMatrixBody("OK", Some(rows))) :
             rows \in RowLists(Len(Get(origins)), Len(Get(destinations)))}
     ELSE {})

calculateDistanceMatrixRequest(origins, destinations, mode) ==
  [op |-> "distancematrix",
   params |-> [origins |-> origins, destinations |-> destinations, mode |-> mode]]

DistanceCell(element) ==
  IF element.status = "OK"
    THEN Some([value |-> element.distance.value, text |-> element.distance.text])
    ELSE Undefined

DurationCell(element) ==
  IF element.status = "OK"
    THEN Some([value |-> element.duration.value, text |-> element.duration.text])
    ELSE Undefined

\* One row of the output: a cell pushed for every element of the row.  A null
\* cell is Undefined here, a filled cell Some(..).
\* A row that gets no cell for an element that is not OK.
RECURSIVE DistanceRowSkipNull(_)
DistanceRowSkipNull(elements) ==
  IF elements = <<>> THEN <<>>
  ELSE (IF elements[1].status = "OK" THEN <<DistanceCell(elements[1])>> ELSE <<>>)
         \o DistanceRowSkipNull(Tail(elements))

RECURSIVE DistanceRow(_)
DistanceRow(elements) ==
  IF elements = <<>> THEN <<>>
  ELSE <<DistanceCell(elements[1])>> \o DistanceRow(Tail(elements))

RECURSIVE DurationRow(_)
DurationRow(elements) ==
  IF elements = <<>> THEN <<>>
  ELSE <<DurationCell(elements[1])>> \o DurationRow(Tail(elements))

calculateDistanceMatrix(resp) ==
  Rethrow(
    IF resp.kind = "rejected" THEN Throw(<<"request failed">>)
    ELSE LET result == resp.data
         IN IF result.status # "OK"
              THEN Throw(<<"Distance matrix calculation failed: ", result.status>>)
            ELSE IF ~IsDefined(result.rows) THEN Throw(TypeErrorMsg("forEach"))
            ELSE LET rows == Get(result.rows)
                 IN Ok([distances |-> [i \in 1..Len(rows) |-> DistanceRow(rows[i].elements)],
                        durations |-> [i \in 1..Len(rows) |-> DurationRow(rows[i].elements)],
                        origin_addresses |-> result.origin_addresses,
                        destination_addresses |-> result.destination_addresses]),
    <<"An error occurred while calculating distance matrix">>)

(***************************************************************************)
(* GoogleMapsTools.getDirections                                           *)
(***************************************************************************)
Leg == [distance |-> [value |-> 1200, text |-> "1.2 km"],
        duration |-> [value |-> 300, text |-> "5 mins"]]

Route(legs) == [summary |-> "A1", legs |-> legs]

DirectionsResponses ==
  {Rejected,
   Resolved([status |-> "NOT_FOUND", routes |-> <<>>]),
   Resolved([status |-> "ZERO_RESULTS", routes |-> <<>>]),
   Resolved([status |-> "OK", routes |-> <<>>]),
   Resolved([status |-> "OK", routes |-> <<Route(<<>>)>>]),
   Resolved([status |-> "OK", routes |-> <<Route(<<Leg>>)>>]),
   Resolved([status |-> "OK", routes |-> <<Route(<<Leg>>), Route(<<Leg, Leg>>)>>])}

getDirectionsRequest(origin, destination, mode) ==
  [op |-> "directions",
   params |-> [origin |-> origin, destination |-> destination, mode |-> mode]]

getDirections(resp) ==
  Rethrow(
    IF resp.kind = "rejected" THEN Throw(<<"request failed">>)
    ELSE LET result == resp.data
         IN IF result.status # "OK"
              THEN Throw(<<"Fetching directions failed: ", result.status>>)
            ELSE IF Len(result.routes) = 0 THEN Throw(<<"No route found">>)
            ELSE LET route == result.routes[1]
                 IN IF Len(route.legs) = 0 THEN Throw(TypeErrorMsg("distance"))
                    ELSE LET legs == route.legs[1]
                         IN Ok([routes |-> result.routes,
                                summary |-> route.summary,
                                total_distance |-> [value |-> legs.distance.value,
                                                    text |-> legs.distance.text],
                                total_duration |-> [value |-> legs.duration.value,
                                                    text |-> legs.duration.text]]),
    <<"An error occurred while fetching directions">>)

(***************************************************************************)
(* GoogleMapsTools.getElevation                                            *)
(***************************************************************************)
Elevations == {10, 20}

ElevationResponses(formattedLocations) ==
  {Rejected,
   Resolved([status |-> "INVALID_REQUEST", results |-> Some(<<>>)]),
   Resolved([status |-> "OK", results |-> Undefined])}
  \cup {Resolved([status |-> "OK",
                  results |-> Some([i \in 1..Len(formattedLocations) |->
                                      [elevation |-> e[i],
                                       location |-> formattedLocations[i],
                                       resolution |-> 1]])]) :
          e \in [1..Len(formattedLocations) -> Elevations]}

\* Latitude and longitude exchanged.
FormatLocationSwapped(location) == [lat |-> location.longitude, lng |-> location.latitude]

FormatLocation(location) == [lat |-> location.latitude, lng |-> location.longitude]

FormatLocations(locations) ==
  [i \in 1..Len(locations) |-> FormatLocation(locations[i])]

\* locations.map(..) throws inside the try block when locations is absent, so
\* that no request is sent.
getElevationRequest(locations) ==
  Rethrow(
    IF ~IsDefined(locations) THEN Throw(TypeErrorMsg("map"))
    ELSE Ok([op |-> "elevation",
             params |-> [locations |-> FormatLocations(Get(locations))]]),
    <<"An error occurred while fetching elevation data">>)

ElevationSample(item, formattedLocations, index) ==
  [elevation |-> item.elevation, location |-> formattedLocations[index]]

getElevation(locations, resp) ==
  Rethrow(
    LET formattedLocations == FormatLocations(Get(locations))
    IN IF resp.kind = "rejected" THEN Throw(<<"request failed">>)
       ELSE LET result == resp.data
            IN IF result.status # "OK"
                 THEN Throw(<<"Elevation data fetch failed: ", result.status>>)
               ELSE IF ~IsDefined(result.results) THEN Throw(TypeErrorMsg("map"))
               ELSE Ok([index \in 1..Len(Get(result.results)) |->
                          ElevationSample(Get(result.results)[index],
                                          formattedLocations, index)]),
    <<"An error occurred while fetching elevation data">>)

(***************************************************************************)
(* GoogleMapsTools.getLocation: a coordinate pair is parsed locally, any   *)
(* other center is sent to the geocoder.                                   *)
(***************************************************************************)
Local(result) == [remote |-> FALSE, result |-> result, call |-> Undefined]
Remote(call) == [remote |-> TRUE, result |-> Throw(<<>>), call |-> Some(call)]

\* A getLocation that sends every center to the geocoder.
getLocationAlwaysGeocode(center) ==
  IF ~IsDefined(center) THEN Local(Throw(TypeErrorMsg("isCoordinates")))
  ELSE Remote(geocodeAddressRequest(Get(center).value))

getLocation(center) ==
  IF ~IsDefined(center) THEN Local(Throw(TypeErrorMsg("isCoordinates")))
  ELSE IF Get(center).isCoordinates = Some(TRUE)
    THEN Local(parseCoordinates(Get(center).value))
  ELSE Remote(geocodeAddressRequest(Get(center).value))

(***************************************************************************)
(* PlacesSearcher: every method turns what GoogleMapsTools returned or     *)
(* threw into a response {success, data | error}.                          *)
(***************************************************************************)
Success(data, location) ==
  [success |-> TRUE, data |-> data, location |-> location, error |-> <<>>]
Failure(error) ==
  [success |-> FALSE, data |-> Undefined, location |-> Undefined, error |-> error]

\* try { return {success: true, data: result} } catch { return {success: false, ..} }
Respond(result) ==
  IF result.ok THEN Success(result.val, Undefined) ELSE Failure(result.msg)

PlaceSummary(place) ==
  [name |-> place.name, place_id |-> place.place_id,
   address |-> place.formatted_address,
   location |-> Get(place.geometry).location,
   rating |-> place.rating, total_ratings |-> place.user_ratings_total,
   open_now |-> IF IsDefined(place.opening_hours)
                  THEN Get(place.opening_hours).open_now ELSE Undefined]

\* PlacesSearcher.searchNearby after searchNearbyPlaces has returned.
searchNearby(location, places) ==
  IF ~places.ok THEN Failure(places.msg)
  ELSE IF ~IsDefined(places.val) THEN Failure(TypeErrorMsg("map"))
  ELSE IF \E i \in 1..Len(Get(places.val)) : ~IsDefined(Get(places.val)[i].geometry)
    THEN Failure(TypeErrorMsg("location"))
  ELSE Success([i \in 1..Len(Get(places.val)) |-> PlaceSummary(Get(places.val)[i])],
               Some(location))

PlaceDetailsData(details) ==
  [name |-> details.name, address |-> details.formatted_address,
   location |-> IF IsDefined(details.geometry)
                  THEN Some(Get(details.geometry).location) ELSE Undefined,
   rating |-> details.rating,
   total_ratings |-> details.user_ratings_total,
   open_now |-> IF IsDefined(details.opening_hours)
                  THEN Get(details.opening_hours).open_now ELSE Undefined,
   phone |-> details.formatted_phone_number,
   website |-> details.website,
   price_level |-> details.price_level,
   reviews |-> IF IsDefined(details.reviews)
                 THEN Some([i \in 1..Len(Get(details.reviews)) |->
                              [rating |-> Get(details.reviews)[i].rating,
                               text |-> Get(details.reviews)[i].text,
                               time |-> Get(details.reviews)[i].time,
                               author_name |-> Get(details.reviews)[i].author_name]])
                 ELSE Undefined]

\* PlacesSearcher.getPlaceDetails after GoogleMapsTools.getPlaceDetails.
placeDetails(details) ==
  IF ~details.ok THEN Failure(details.msg)
  ELSE IF ~IsDefined(details.val) THEN Failure(TypeErrorMsg("name"))
  ELSE Success(PlaceDetailsData(Get(details.val)), Undefined)

(***************************************************************************)
(* The call-tool handler.                                                  *)
(***************************************************************************)
ToolNames == {"search_nearby", "get_place_details", "maps_geocode",
              "maps_reverse_geocode", "maps_distance_matrix", "maps_directions",
              "maps_elevation"}

Envelope(isError, text, json) == [isError |-> isError, text |-> text, json |-> json]

NoParameters == <<"No parameters provided">>
UnknownTool(name) == <<"Error: Unknown tool '", name, "'">>

\* The text of a success is JSON.stringify of the data, carried in json.
ToolResult(result, fallback) ==
  IF ~result.success
    THEN Envelope(TRUE, IF result.error # <<>> THEN result.error ELSE <<fallback>>,
                  Undefined)
    ELSE Envelope(FALSE, <<"JSON">>, Some(result.data))

SearchResult(result) ==
  IF ~result.success
    THEN Envelope(TRUE, IF result.error # <<>> THEN result.error ELSE <<"Search failed">>,
                  Undefined)
    ELSE Envelope(FALSE, <<"location: ", "JSON", "\n", "JSON">>,
                  Some([location |-> Get(result.location), data |-> result.data]))

\* A handler without its outer try/catch.
HandlerNoCatch(outcome) == outcome

\* The handler's outer try/catch: what the transport gets.

HandlerCatch(outcome) ==
  IF outcome.ok THEN outcome
  ELSE Ok(Envelope(TRUE, <<"Error: ">> \o outcome.msg, Undefined))

\* The handler's checks in the other order: the tool name, then the bag.
DispatchNameFirst(r) ==
  IF r.name \notin ToolNames THEN "(unknown)"
  ELSE IF ~IsDefined(r.args) THEN "(no parameters)"
  ELSE r.name

\* The order of the handler's checks: the argument bag, then the tool name.
Dispatch(r) ==
  IF ~IsDefined(r.args) THEN "(no parameters)"
  ELSE IF r.name \in ToolNames THEN r.name
  ELSE "(unknown)"

ModeOrDriving(mode) == IF TruthyString(mode) THEN Get(mode) ELSE "driving"

Done(outcome) ==
  [pc |-> "done", call |-> Undefined, loc |-> Undefined, env |-> Some(HandlerCatch(outcome))]
Await(call, location) ==
  [pc |-> "await", call |-> Some(call), loc |-> location, env |-> Undefined]

SearchParams(args, location) ==
  [location |-> location, keyword |-> args.keyword, radius |-> args.radius,
   openNow |-> args.openNow, minRating |-> args.minRating]

\* The handler from its entry to its first await, or to its return.
HandlerStart(r) ==
  LET route == Dispatch(r)
      args == Get(r.args)
  IN CASE route = "(no parameters)" -> Done(Throw(NoParameters))
       [] route = "(unknown)" -> Done(Ok(Envelope(TRUE, UnknownTool(r.name), Undefined)))
       [] route = "search_nearby" ->
            LET l == getLocation(args.center)
            IN IF l.remote THEN Await(Get(l.call), Undefined)
               ELSE IF ~l.result.ok THEN Done(Ok(SearchResult(Failure(l.result.msg))))
               ELSE Await(searchNearbyPlacesRequest(SearchParams(args, l.result.val)),
                          Some(l.result.val))
       [] route = "get_place_details" ->
            Await(getPlaceDetailsRequest(args.placeId), Undefined)
       [] route = "maps_geocode" ->
            Await(geocodeAddressRequest(args.address), Undefined)
       [] route = "maps_reverse_geocode" ->
            Await(reverseGeocodeRequest(args.latitude, args.longitude), Undefined)
       [] route = "maps_distance_matrix" ->
            Await(calculateDistanceMatrixRequest(args.origins, args.destinations,
                                                 ModeOrDriving(args.mode)), Undefined)
       [] route = "maps_directions" ->
            Await(getDirectionsRequest(args.origin, args.destination,
                                       ModeOrDriving(args.mode)), Undefined)
       [] route = "maps_elevation" ->
            LET q == getElevationRequest(args.locations)
            IN IF q.ok THEN Await(q.val, Undefined)
               ELSE Done(Ok(ToolResult(Respond(q), "Elevation data fetching failed")))

(***************************************************************************)
(* The requests a client sends: every tool with an absent argument bag,    *)
(* with every required and optional field absent or present, and a name    *)
(* that is no tool.                                                        *)
(***************************************************************************)
CoordinatePair == <<"1", ",", "2">>
Landmark == <<"x">>

Centers ==
  {Undefined}
  \cup {Some([value |-> v, isCoordinates |-> c]) :
          v \in {Undefined, Some(CoordinatePair), Some(Landmark)},
          c \in {Undefined, Some(FALSE), Some(TRUE)}}

Modes == {Undefined, Some("walking")}

RECURSIVE SeqsUpTo(_, _)
SeqsUpTo(S, n) ==
  IF n = 0 THEN {<<>>}
  ELSE SeqsUpTo(S, n - 1)
         \cup {Append(q, x) : q \in {t \in SeqsUpTo(S, n - 1) : Len(t) = n - 1}, x \in S}

AddressLists == {Undefined} \cup {Some(q) : q \in SeqsUpTo({"a"}, MaxAddrs)}

Points == {[latitude |-> 1, longitude |-> 2], [latitude |-> 3, longitude |-> 4]}

LocationLists == {Undefined} \cup {Some(q) : q \in SeqsUpTo(Points, MaxLocations)}

ArgBags(name) ==
  CASE name = "search_nearby" ->
         [center : Centers, keyword : {Undefined, Some("cafe")},
          radius : {Undefined, Some(0), Some(500)},
          openNow : {Undefined, Some(FALSE), Some(TRUE)},
          minRating : Ratings]
    [] name = "get_place_details" -> [placeId : {Undefined, Some("pid")}]
    [] name = "maps_geocode" -> [address : {Undefined, Some(Landmark)}]
    [] name = "maps_reverse_geocode" ->
         [latitude : {Undefined, Some(1)}, longitude : {Undefined, Some(2)}]
    [] name = "maps_distance_matrix" ->
         [origins : AddressLists, destinations : AddressLists, mode : Modes]
    [] name = "maps_directions" ->
         [origin : {Undefined, Some("a")}, destination : {Undefined, Some("b")},
          mode : Modes]
    [] name = "maps_elevation" -> [locations : LocationLists]
    [] OTHER -> {[placeId |-> Some("pid")]}

Names == ToolNames \cup {"maps_weather"}

Requests ==
  UNION {{[name |-> n, args |-> a] : a \in {Undefined} \cup {Some(b) : b \in ArgBags(n)}} :
           n \in Names}

NoRequest == [name |-> "", args |-> Undefined]

(***************************************************************************)
(* State.  pc: the handler's position; req: the request being served;      *)
(* calls: the requests sent to the Google Maps client during this          *)
(* dispatch, each with its answer once it has one; loc: searchNearby's     *)
(* `location`; env: what the handler returned to the transport.  coordIn   *)
(* and coordOut are the argument and the result of getLocation when it is  *)
(* run alone on a coordinate string.                                       *)
(***************************************************************************)
Idle ==
  /\ pc = "idle"
  /\ req = NoRequest
  /\ calls = <<>>
  /\ loc = Undefined
  /\ env = Undefined

Init ==
  /\ Idle
  /\ coordIn = <<>>
  /\ coordOut = Undefined

Sent(call) == [op |-> call.op, params |-> call.params, resp |-> Undefined]

Answered(call, resp) == [op |-> call.op, params |-> call.params, resp |-> Some(resp)]

Pending == calls[Len(calls)]

Awaiting(name, op) ==
  /\ pc = "await"
  /\ req.name = name
  /\ Pending.op = op

\* The handler runs to its first await or to its return.
Enter(r, step) ==
  /\ req' = r
  /\ pc' = step.pc
  /\ calls' = IF IsDefined(step.call) THEN <<Sent(Get(step.call))>> ELSE <<>>
  /\ loc' = step.loc
  /\ env' = step.env

CallTool ==
  /\ pc = "idle"
  /\ \E r \in Requests : Enter(r, HandlerStart(r))
  /\ UNCHANGED <<coordIn, coordOut>>

\* The pending request is answered and the handler returns `envelope`.
Finish(resp, envelope) ==
  /\ calls' = [calls EXCEPT ![Len(calls)] = Answered(Pending, resp)]
  /\ pc' = "done"
  /\ env' = Some(HandlerCatch(Ok(envelope)))
  /\ UNCHANGED <<req, loc, coordIn, coordOut>>

\* search_nearby: the geocoder answers getLocation; on success the
\* nearby search is requested.
CenterResolved ==
  /\ Awaiting("search_nearby", "geocode")
  /\ \E resp \in GeocodeResponses :
       LET location == geocodeAddress(resp)
       IN IF location.ok
            THEN /\ calls' = <<Answered(Pending, resp),
                               Sent(searchNearbyPlacesRequest(
                                      SearchParams(Get(req.args), location.val)))>>
                 /\ loc' = Some(location.val)
                 /\ UNCHANGED <<pc, env, req, coordIn, coordOut>>
            ELSE /\ Finish(resp, SearchResult(Failure(location.msg)))

NearbyReturns ==
  /\ Awaiting("search_nearby", "placesNearby")
  /\ \E resp \in NearbyResponses :
       Finish(resp,
              SearchResult(searchNearby(Get(loc),
                 searchNearbyPlaces(SearchParams(Get(req.args), Get(loc)), resp))))

PlaceDetailsReturns ==
  /\ Awaiting("get_place_details", "placeDetails")
  /\ \E resp \in PlaceDetailsResponses :
       Finish(resp, ToolResult(placeDetails(getPlaceDetails(resp)),
                               "Failed to fetch place details"))

GeocodeReturns ==
  /\ Awaiting("maps_geocode", "geocode")
  /\ \E resp \in GeocodeResponses :
       Finish(resp, ToolResult(Respond(geocode(resp)), "Geocoding failed"))

ReverseGeocodeReturns ==
  /\ Awaiting("maps_reverse_geocode", "reverseGeocode")
  /\ \E resp \in GeocodeResponses :
       Finish(resp, ToolResult(Respond(reverseGeocode(resp)), "Reverse geocoding failed"))

DistanceMatrixReturns ==
  /\ Awaiting("maps_distance_matrix", "distancematrix")
  /\ \E resp \in DistanceMatrixResponses(Pending.params.origins,
                                         Pending.params.destinations) :
       Finish(resp, ToolResult(Respond(calculateDistanceMatrix(resp)),
                               "Distance matrix calculation failed"))

DirectionsReturns ==
  /\ Awaiting("maps_directions", "directions")
  /\ \E resp \in DirectionsResponses :
       Finish(resp, ToolResult(Respond(getDirections(resp)),
                               "Fetching directions failed"))

ElevationReturns ==
  /\ Awaiting("maps_elevation", "elevation")
  /\ \E resp \in ElevationResponses(Pending.params.locations) :
       Finish(resp, ToolResult(Respond(getElevation(Get(req.args).locations, resp)),
                               "Elevation data fetching failed"))

\* The transport has the result; the server is ready for the next request.
Return ==
  /\ pc = "done"
  /\ pc' = "idle"
  /\ req' = NoRequest
  /\ calls' = <<>>
  /\ loc' = Undefined
  /\ env' = Undefined
  /\ UNCHANGED <<coordIn, coordOut>>

Next ==
  \/ CallTool
  \/ CenterResolved
  \/ NearbyReturns
  \/ PlaceDetailsReturns
  \/ GeocodeReturns
  \/ ReverseGeocodeReturns
  \/ DistanceMatrixReturns
  \/ DirectionsReturns
  \/ ElevationReturns
  \/ Return

Spec == Init /\ [][Next]_vars

(***************************************************************************)
(* getLocation run alone on every coordinate string up to MaxStrLen        *)
(* characters, and on a few longer ones.                                   *)
(***************************************************************************)
LongerStrings ==
  {InfinityText \o <<",", "1">>,
   <<"1", ",">> \o InfinityText,
   <<"1", ",", "2", ",", "1">>,
   <<" ", "1", ".", "2", " ", ",", " ", "-", "2", " ">>,
   <<"1", "x", ",", "2">>,
   <<"1", ",", "2", "x">>}

CoordStrings == UNION {StringsOfLen(n) : n \in 0..MaxStrLen} \cup LongerStrings

InitCoord ==
  /\ Idle
  /\ coordIn \in CoordStrings
  /\ coordOut = Undefined

ResolveCoordinates ==
  /\ coordOut = Undefined
  /\ coordOut' = Some(getLocation(Some([value |-> Some(coordIn),
                                        isCoordinates |-> Some(TRUE)])).result)
  /\ UNCHANGED <<pc, req, calls, loc, env, coordIn>>

NextCoord == ResolveCoordinates

SpecCoord == InitCoord /\ [][NextCoord]_vars

(***************************************************************************)
(* What the properties below read off a state.                             *)
(***************************************************************************)
Returned == pc = "done"
Outcome == Get(env)
Result == Outcome.val
Args == Get(req.args)
LastAnswer == Get(Pending.resp)

\* The required fields of each tool's inputSchema.
Required(name) ==
  CASE name = "search_nearby" -> {"center"}
    [] name = "get_place_details" -> {"placeId"}
    [] name = "maps_geocode" -> {"address"}
    [] name = "maps_reverse_geocode" -> {"latitude", "longitude"}
    [] name = "maps_distance_matrix" -> {"origins", "destinations"}
    [] name = "maps_directions" -> {"origin", "destination"}
    [] name = "maps_elevation" -> {"locations"}
    [] OTHER -> {}

MissingRequired(r) ==
  /\ IsDefined(r.args)
  /\ \E f \in Required(r.name) : ~IsDefined(Get(r.args)[f])

\* C1: every dispatch that has returned gave the transport an envelope with
\* an isError flag and a non-empty text, whatever the tool name, the argument
\* bag and the upstream answer were; no exception left the handler.
C1_AlwaysEnvelope ==
  Returned =>
    /\ IsDefined(env)
    /\ Outcome.ok
    /\ Result.isError \in BOOLEAN
    /\ Result.text # <<>>
    /\ (Result.isError <=> ~IsDefined(Result.json))

\* C1 witness: the nearby search was rejected by the upstream after the
\* center had been geocoded, and the caller got an error envelope.
C1_Witness ==
  /\ Returned
  /\ req.name = "search_nearby"
  /\ Len(calls) = 2
  /\ LastAnswer = Rejected
  /\ Outcome.ok
  /\ Result.isError

NoParametersText == <<"Error: ">> \o NoParameters

\* C2 as claimed: the tool name is checked before the arguments, so an
\* unknown tool name always gives the unknown-tool error and the
\* no-parameters error is given only for a known tool.
C2_NameCheckedFirst ==
  Returned /\ Outcome.ok =>
    /\ (req.name \notin ToolNames => Result.text = UnknownTool(req.name))
    /\ (Result.text = NoParametersText => req.name \in ToolNames)

\* C2 amended: the arguments are checked before the tool name.  An absent
\* argument bag gives the no-parameters error whatever the tool name; the
\* unknown-tool error is given exactly for an unknown name with an argument
\* bag present.
C2_ArgsCheckedFirst ==
  Returned /\ Outcome.ok =>
    /\ (~IsDefined(req.args) <=> Result.text = NoParametersText)
    /\ (IsDefined(req.args) /\ req.name \notin ToolNames
          <=> Result.text = UnknownTool(req.name))
    /\ (~IsDefined(req.args) \/ req.name \notin ToolNames
          => Result.isError /\ calls = <<>>)

\* C2 witness: an unknown tool called without arguments was answered with
\* the no-parameters error.
C2_Witness ==
  /\ Returned
  /\ req.name \notin ToolNames
  /\ ~IsDefined(req.args)
  /\ Outcome.ok
  /\ Result.isError
  /\ Result.text = NoParametersText

\* C3: a call whose argument bag lacks a required field is rejected: nothing
\* is sent to the gateway's upstream for it, and it returns an error envelope.
C3_MissingRequiredRejected ==
  MissingRequired(req) =>
    /\ calls = <<>>
    /\ (Returned => Outcome.ok /\ Result.isError)

\* A text that is a finite decimal number from its first to its last character.
IsFiniteNumberText(t) ==
  /\ t # <<>>
  /\ ParseFloatScan(t).value.kind = "num"
  /\ ParseFloatScan(t).read = Len(t)

IsCoordinatePair(s) ==
  /\ Len(Split(s)) = 2
  /\ \A i \in 1..2 : IsFiniteNumberText(Trim(Split(s)[i]))

\* C4: with isCoordinates = true, getLocation succeeds exactly when the value
\* is two comma-separated finite numbers, returns those two numbers, and
\* fails with the invalid-coordinate-format error otherwise.
C4_CoordinatesStrict ==
  IsDefined(coordOut) =>
    /\ (Get(coordOut).ok <=> IsCoordinatePair(coordIn))
    /\ (Get(coordOut).ok =>
          Get(coordOut).val = [lat |-> parseFloat(Trim(Split(coordIn)[1])),
                               lng |-> parseFloat(Trim(Split(coordIn)[2]))])
    /\ (~Get(coordOut).ok => Get(coordOut).msg = InvalidCoordinateFormat)

SearchSucceeded ==
  /\ Returned
  /\ req.name = "search_nearby"
  /\ Outcome.ok
  /\ ~Result.isError

\* C5: when search_nearby is given a minRating r (0 included), every place it
\* returns has a rating, and one of at least r; the places are in the
\* upstream's order.
C5_MinRatingFilter ==
  SearchSucceeded /\ IsDefined(Args.minRating) =>
    LET data == Get(Result.json).data
    IN /\ \A i \in 1..Len(data) :
            /\ IsDefined(data[i].rating)
            /\ Get(data[i].rating) >= Get(Args.minRating)
       /\ \A i, j \in 1..Len(data) : i < j => data[i].place_id < data[j].place_id

MatrixSucceeded ==
  /\ Returned
  /\ req.name = "maps_distance_matrix"
  /\ Outcome.ok
  /\ ~Result.isError

MatrixAnsweredOK ==
  /\ Returned
  /\ req.name = "maps_distance_matrix"
  /\ calls # <<>>
  /\ LastAnswer.kind = "resolved"
  /\ LastAnswer.data.status = "OK"
  /\ IsDefined(LastAnswer.data.rows)

\* C6: a successful maps_distance_matrix has one row per origin and one cell
\* per destination in distances and in durations; a cell is null in both
\* exactly when the upstream element is not OK and holds the element's
\* distance and duration otherwise; an element that is not OK does not fail
\* the call.
C6_MatrixShape ==
  /\ MatrixSucceeded =>
       /\ IsDefined(Args.origins)
       /\ IsDefined(Args.destinations)
       /\ MatrixAnsweredOK
       /\ LET data == Get(Result.json)
              rows == Get(LastAnswer.data.rows)
              n == Len(Get(Args.origins))
              m == Len(Get(Args.destinations))
          IN /\ Len(data.distances) = n
             /\ Len(data.durations) = n
             /\ \A i \in 1..n :
                  /\ Len(data.distances[i]) = m
                  /\ Len(data.durations[i]) = m
                  /\ \A j \in 1..m :
                       LET element == rows[i].elements[j]
                       IN IF element.status = "OK"
                            THEN /\ data.distances[i][j] = Some(element.distance)
                                 /\ data.durations[i][j] = Some(element.duration)
                            ELSE /\ data.distances[i][j] = Undefined
                                 /\ data.durations[i][j] = Undefined
  /\ MatrixAnsweredOK => MatrixSucceeded

\* C6 witness: a successful two-by-two matrix with a null cell after a
\* filled one in its first row.
C6_Witness ==
  /\ MatrixSucceeded
  /\ Len(Get(Result.json).distances) = 2
  /\ Len(Get(Result.json).distances[1]) = 2
  /\ IsDefined(Get(Result.json).distances[1][1])
  /\ ~IsDefined(Get(Result.json).distances[1][2])
  /\ IsDefined(Get(Result.json).durations[2][2])

\* The text a tool's envelope carries when the upstream call itself fails.
GeocodeFailedText ==
  ToolResult(Respond(geocode(Rejected)), "Geocoding failed").text
ReverseGeocodeFailedText ==
  ToolResult(Respond(reverseGeocode(Rejected)), "Reverse geocoding failed").text
ResolveFailedText ==
  SearchResult(Failure(geocodeAddress(Rejected).msg)).text

ZeroResults ==
  /\ Returned
  /\ calls # <<>>
  /\ Pending.op \in {"geocode", "reverseGeocode"}
  /\ LastAnswer.kind = "resolved"
  /\ LastAnswer.data.results = Some(<<>>)

IsPieceOf(piece, text) == \E i \in 1..Len(text) : text[i] = piece

\* C7: when the geocoder returns zero results, the envelope's error says that
\* the address was not found, and differs from the error given when the
\* geocode call itself fails.
C7_AddressNotFoundDistinct ==
  ZeroResults =>
    /\ Outcome.ok
    /\ Result.isError
    /\ \/ IsPieceOf("Address not found", Result.text)
       \/ IsPieceOf("Address not found for given coordinates", Result.text)
    /\ Result.text # (CASE req.name = "maps_geocode" -> GeocodeFailedText
                        [] req.name = "maps_reverse_geocode" -> ReverseGeocodeFailedText
                        [] OTHER -> ResolveFailedText)

DirectionsAnswered ==
  /\ Returned
  /\ req.name = "maps_directions"
  /\ calls # <<>>
  /\ LastAnswer.kind = "resolved"

\* C8: maps_directions answers status OK with zero routes by the no-route
\* error, and a status that is not OK by an error naming the operation and
\* the provider's status; the two texts differ.
C8_DirectionsErrorsDistinct ==
  DirectionsAnswered =>
    /\ (LastAnswer.data.status = "OK" /\ LastAnswer.data.routes = <<>> =>
          Outcome.ok /\ Result.isError /\ IsPieceOf("No route found", Result.text))
    /\ (LastAnswer.data.status # "OK" =>
          /\ Outcome.ok
          /\ Result.isError
          /\ Result.text = <<"Fetching directions failed: ", LastAnswer.data.status>>)

ElevationSucceeded ==
  /\ Returned
  /\ req.name = "maps_elevation"
  /\ Outcome.ok
  /\ ~Result.isError

\* C9: a successful maps_elevation returns one sample per input location, in
\* the input's order: sample i has the location {lat: latitude, lng:
\* longitude} of input i and the elevation the upstream gave at index i.
C9_ElevationAligned ==
  ElevationSucceeded =>
    /\ IsDefined(Args.locations)
    /\ LET data == Get(Result.json)
           locations == Get(Args.locations)
           results == Get(LastAnswer.data.results)
       IN /\ Len(data) = Len(locations)
          /\ \A i \in 1..Len(locations) :
               /\ data[i].location.lat = locations[i].latitude
               /\ data[i].location.lng = locations[i].longitude
               /\ data[i].elevation = results[i].elevation

\* C9 witness: two different locations came back with two different
\* elevations.
C9_Witness ==
  /\ ElevationSucceeded
  /\ Len(Get(Result.json)) = 2
  /\ Get(Args.locations)[1] # Get(Args.locations)[2]
  /\ Get(Result.json)[1].elevation # Get(Result.json)[2].elevation

\* C10: maps_elevation with an empty locations sequence returns success with
\* an empty result sequence, never an error envelope.
C10_EmptyElevationSucceeds ==
  Returned /\ req.name = "maps_elevation" /\ req.args = Some([locations |-> Some(<<>>)]) =>
    /\ Outcome.ok
    /\ ~Result.isError
    /\ Result.json = Some(<<>>)

OrElse(o, default) == IF IsDefined(o) THEN Get(o) ELSE default

\* C11: each declared default is applied exactly when the caller omits the
\* field: the nearby search is requested with radius 1000 and openNow false
\* for an omitted field, the distance matrix and the directions with mode
\* "driving", an omitted isCoordinates sends the center to the geocoder; a
\* supplied field (a radius of 0 and an openNow of false included) reaches
\* the request unchanged.
C11_DefaultsApplied ==
  /\ \A k \in 1..Len(calls) :
       /\ calls[k].op = "placesNearby" =>
            /\ calls[k].params.radius = OrElse(Args.radius, DefaultRadius)
            /\ calls[k].params.opennow = Some(OrElse(Args.openNow, FALSE))
            /\ calls[k].params.keyword = Args.keyword
       /\ calls[k].op \in {"distancematrix", "directions"} =>
            calls[k].params.mode = OrElse(Args.mode, "driving")
  /\ (/\ req.name = "search_nearby"
      /\ IsDefined(req.args)
      /\ IsDefined(Args.center)
      /\ Get(Args.center).isCoordinates \in {Undefined, Some(FALSE)}) =>
       /\ calls # <<>>
       /\ calls[1].op = "geocode"
       /\ calls[1].params.address = Get(Args.center).value

BadCoordinates ==
  /\ req.name = "search_nearby"
  /\ IsDefined(req.args)
  /\ IsDefined(Args.center)
  /\ Get(Args.center).isCoordinates = Some(TRUE)
  /\ ~parseCoordinates(Get(Args.center).value).ok

UpstreamFailed(call) ==
  /\ IsDefined(call.resp)
  /\ \/ Get(call.resp).kind = "rejected"
     \/ /\ Get(call.resp).kind = "resolved"
        /\ "status" \in DOMAIN Get(call.resp).data
        /\ Get(call.resp).data.status # "OK"
     \/ /\ Get(call.resp).kind = "resolved"
        /\ call.op \in {"geocode", "reverseGeocode"}
        /\ Get(call.resp).data.results \in {Undefined, Some(<<>>)}

\* C13: there is no retry.  In one dispatch every upstream operation is
\* requested at most once: search_nearby sends at most one geocode request
\* and then at most one nearby-search request, every other tool at most one
\* request.  A failed upstream request is the last one of its dispatch, which
\* ends with an error envelope; the nearby search is requested only after
\* the center was resolved.
C13_NoRetry ==
  /\ Len(calls) <= 2
  /\ \A i, j \in 1..Len(calls) : i < j => calls[i].op # calls[j].op
  /\ req.name # "search_nearby" => Len(calls) <= 1
  /\ Len(calls) = 2 =>
       /\ calls[1].op = "geocode"
       /\ calls[2].op = "placesNearby"
       /\ IsDefined(calls[1].resp)
  /\ \A k \in 1..Len(calls) :
       /\ k < Len(calls) => IsDefined(calls[k].resp)
       /\ UpstreamFailed(calls[k]) =>
            /\ k = Len(calls)
            /\ Returned
            /\ Outcome.ok
            /\ Result.isError

\* C13 witness: the geocoder rejected the center of a search_nearby; the
\* dispatch returned an error and the nearby search was never requested.
C13_Witness ==
  /\ Returned
  /\ req.name = "search_nearby"
  /\ Len(calls) = 1
  /\ calls[1].op = "geocode"
  /\ UpstreamFailed(calls[1])
  /\ Result.isError

(***************************************************************************)
(* Several dispatches in flight.  The handler is an async function: each   *)
(* invocation has its own name, args, location and result, and runs until  *)
(* its next await; the server object, placesSearcher and its client are    *)
(* never written after construction.  In SpecConc pc, req, calls, loc and  *)
(* env are functions of the invocation (1..NumFlights).                    *)
(***************************************************************************)
Flights == 1..NumFlights

\* The handler from the answer to its pending request to its next await, or
\* to its return.
Resume(r, call, location, resp) ==
  LET args == Get(r.args)
  IN CASE call.op = "geocode" /\ r.name = "search_nearby" ->
            LET l == geocodeAddress(resp)
            IN IF l.ok
                 THEN Await(searchNearbyPlacesRequest(SearchParams(args, l.val)),
                            Some(l.val))
                 ELSE Done(Ok(SearchResult(Failure(l.msg))))
       [] call.op = "placesNearby" ->
            Done(Ok(SearchResult(searchNearby(Get(location),
                   searchNearbyPlaces(SearchParams(args, Get(location)), resp)))))
       [] call.op = "placeDetails" ->
            Done(Ok(ToolResult(placeDetails(getPlaceDetails(resp)),
                               "Failed to fetch place details")))
       [] call.op = "geocode" /\ r.name # "search_nearby" ->
            Done(Ok(ToolResult(Respond(geocode(resp)), "Geocoding failed")))
       [] call.op = "reverseGeocode" ->
            Done(Ok(ToolResult(Respond(reverseGeocode(resp)),
                               "Reverse geocoding failed")))
       [] call.op = "distancematrix" ->
            Done(Ok(ToolResult(Respond(calculateDistanceMatrix(resp)),
                               "Distance matrix calculation failed")))
       [] call.op = "directions" ->
            Done(Ok(ToolResult(Respond(getDirections(resp)),
                               "Fetching directions failed")))
       [] call.op = "elevation" ->
            Done(Ok(ToolResult(Respond(getElevation(args.locations, resp)),
                               "Elevation data fetching failed")))

\* The answers the client may give to a request.
Responses(call) ==
  CASE call.op \in {"geocode", "reverseGeocode"} -> GeocodeResponses
    [] call.op = "placesNearby" ->
         {Rejected} \cup {Resolved([results |-> Some(l)]) : l \in PlaceLists(1)}
    [] call.op = "placeDetails" -> PlaceDetailsResponses
    [] call.op = "distancematrix" ->
         DistanceMatrixResponses(call.params.origins, call.params.destinations)
    [] call.op = "directions" -> DirectionsResponses
    [] call.op = "elevation" -> ElevationResponses(call.params.locations)

SearchAround(value, isCoordinates) ==
  [name |-> "search_nearby",
   args |-> Some([center |-> Some([value |-> Some(value),
                                   isCoordinates |-> isCoordinates]),
                  keyword |-> Undefined, radius |-> Undefined,
                  openNow |-> Undefined, minRating |-> Some(3)])]

\* The requests of the concurrent clients.
ConcurrentRequests ==
  {SearchAround(CoordinatePair, Some(TRUE)),
   SearchAround(Landmark, Undefined),
   [name |-> "maps_geocode", args |-> Some([address |-> Some(Landmark)])],
   [name |-> "maps_elevation",
    args |-> Some([locations |-> Some(<<[latitude |-> 1, longitude |-> 2]>>)])],
   [name |-> "maps_weather", args |-> Some([placeId |-> Some("pid")])],
   [name |-> "search_nearby", args |-> Undefined]}

\* A shared field instead of a local: a write is seen by every invocation.
WriteShared(locals, id, v) == [i \in DOMAIN locals |-> v]

\* `const location = ...`: a local of the invocation id.
WriteLocal(locals, id, v) == [locals EXCEPT ![id] = v]

InitConc ==
  /\ pc = [id \in Flights |-> "idle"]
  /\ req = [id \in Flights |-> NoRequest]
  /\ calls = [id \in Flights |-> <<>>]
  /\ loc = [id \in Flights |-> Undefined]
  /\ env = [id \in Flights |-> Undefined]
  /\ coordIn = <<>>
  /\ coordOut = Undefined

\* A request arrives and its handler runs to its first await or its return.
Begin(id) ==
  /\ pc[id] = "idle"
  /\ \E r \in ConcurrentRequests :
       LET step == HandlerStart(r)
       IN /\ req' = [req EXCEPT ![id] = r]
          /\ pc' = [pc EXCEPT ![id] = step.pc]
          /\ calls' = [calls EXCEPT
                         ![id] = IF IsDefined(step.call)
                                   THEN <<Sent(Get(step.call))>> ELSE <<>>]
          /\ loc' = IF IsDefined(step.loc) THEN WriteLocal(loc, id, step.loc) ELSE loc
          /\ env' = [env EXCEPT ![id] = step.env]
  /\ UNCHANGED <<coordIn, coordOut>>

\* The client answers the pending request of invocation id, which resumes.
Answer(id) ==
  /\ pc[id] = "await"
  /\ LET call == calls[id][Len(calls[id])]
     IN \E resp \in Responses(call) :
          LET step == Resume(req[id], call, loc[id], resp)
              log == [calls[id] EXCEPT ![Len(calls[id])] = Answered(call, resp)]
          IN /\ pc' = [pc EXCEPT ![id] = step.pc]
             /\ calls' = [calls EXCEPT
                            ![id] = IF IsDefined(step.call)
                                      THEN Append(log, Sent(Get(step.call))) ELSE log]
             /\ loc' = IF IsDefined(step.loc) THEN WriteLocal(loc, id, step.loc) ELSE loc
             /\ env' = [env EXCEPT ![id] = step.env]
  /\ UNCHANGED <<req, coordIn, coordOut>>

\* The transport has the result of invocation id.
Deliver(id) ==
  /\ pc[id] = "done"
  /\ pc' = [pc EXCEPT ![id] = "idle"]
  /\ req' = [req EXCEPT ![id] = NoRequest]
  /\ calls' = [calls EXCEPT ![id] = <<>>]
  /\ loc' = [loc EXCEPT ![id] = Undefined]
  /\ env' = [env EXCEPT ![id] = Undefined]
  /\ UNCHANGED <<coordIn, coordOut>>

NextConc == \E id \in Flights : Begin(id) \/ Answer(id) \/ Deliver(id)

SpecConc == InitConc /\ [][NextConc]_vars

\* What a dispatch of r returns when it runs alone and its requests get the
\* answers of `answers`, in order.
RECURSIVE Continue(_, _, _)
Continue(r, step, answers) ==
  IF step.pc = "done" THEN step.env
  ELSE IF answers = <<>> THEN Undefined
  ELSE Continue(r, Resume(r, Get(step.call), step.loc, Head(answers)), Tail(answers))

RunAlone(r, answers) == Continue(r, HandlerStart(r), answers)

AnswersOf(log) == [k \in 1..Len(log) |-> Get(log[k].resp)]

\* C14: the handler is reentrant.  Whatever the interleaving of the
\* invocations in flight, the result of each is the one its own request gives
\* when run alone against the answers to its own requests, and at every
\* await its location is the one it resolved itself.
C14_Reentrant ==
  \A id \in Flights :
    /\ pc[id] = "done" =>
         /\ IsDefined(env[id])
         /\ env[id] = RunAlone(req[id], AnswersOf(calls[id]))
    /\ (pc[id] = "await" /\ calls[id][Len(calls[id])].op = "placesNearby") =>
         /\ IsDefined(loc[id])
         /\ Get(loc[id]) = calls[id][Len(calls[id])].params.location

\* C14 witness: invocation 1 returned a successful search around the point
\* it had resolved while invocation 2 was suspended at its own nearby search
\* around another point.
C14_Witness ==
  /\ pc[1] = "done"
  /\ pc[2] = "await"
  /\ req[1].name = "search_nearby"
  /\ req[2].name = "search_nearby"
  /\ Len(calls[2]) = 2
  /\ IsDefined(loc[1])
  /\ IsDefined(loc[2])
  /\ loc[1] # loc[2]
  /\ ~Get(env[1]).val.isError
  /\ Get(Get(env[1]).val.json).location = Get(loc[1])

====
